---- MODULE Spec2Model ----
(***************************************************************************)
(* Model of the web2api recipes (brave-search, deepl, wikipedia, x).       *)
(* One behaviour is one invocation scrape(endpoint, page, params) of one   *)
(* recipe; the page, the credential store and the bird CLI are the         *)
(* environment and answer nondeterministically.                            *)
(*                                                                         *)
(* Text is a sequence of atoms (characters or opaque words); " " and "\n"  *)
(* are the whitespace atoms.                                               *)
(***************************************************************************)
EXTENDS Integers, Sequences, FiniteSets, TLC

VARIABLES
    recipe,        \* the recipe whose scrape is invoked
    endpoint,      \* scrape's endpoint argument
    params,        \* scrape's params argument
    pc,            \* position of the invocation inside scrape
    status,        \* "running", "returned" (a ScrapeResult) or "raised"
    error,         \* which raise ended the invocation ("" while none)
    result,        \* the returned ScrapeResult
    ops,           \* page / file / subprocess operations performed so far
    translated,    \* deepl: last-seen non-trivial target text
    stable_count,  \* deepl: consecutive unchanged checks
    polls,         \* deepl: iterations of the polling loop started
    current,       \* deepl: value returned by the latest _read_target
    run,           \* history: length of the current run of identical
                   \*   non-trivial observations (0 after a trivial one)
    script,        \* history: polls done if all of them matched PollScript,
                   \*   else 0
    last_seen,     \* history: the most recent non-empty, non-echo value polled
    queried,       \* candidates probed by the latest fallback chain
    count,         \* the clamped count local of scrape
    page_num,      \* the clamped page_num local of scrape
    title,         \* brave-search: page title read after navigation
    snippets,      \* number of raw result elements the page returned
    parsed,        \* iterations of the extraction loop done
    items,         \* the items list being built
    url,           \* wikipedia: page.url after navigation
    article,       \* wikipedia: what the extraction helpers returned
    auth,          \* x: environment variables and ~/.bird_auth as read
    auth_token,    \* x: resolved auth token
    ct0,           \* x: resolved ct0
    proc,          \* x: outcome of the bird subprocess
    probe          \* element under test of the fallback-chain specification

commonVars == <<recipe, endpoint, params>>
outVars == <<status, error, result>>
deeplVars == <<translated, stable_count, polls, current, run, script,
               last_seen>>
searchVars == <<count, page_num, title, snippets, parsed, items>>
wikiVars == <<url, article>>
xVars == <<auth, auth_token, ct0, proc>>

vars == <<recipe, endpoint, params, pc, status, error, result, ops,
          translated, stable_count, polls, current, run, script, last_seen,
          queried, count, page_num, title, snippets, parsed, items, url, article,
          auth, auth_token, ct0, proc, probe>>

(* ------------------------------ text ----------------------------------- *)

IsSpace(c) == c \in {" ", "\n"}

RECURSIVE LStrip(_)
LStrip(t) == IF t # <<>> /\ IsSpace(Head(t)) THEN LStrip(Tail(t)) ELSE t

RECURSIVE RStrip(_)
RStrip(t) ==
    IF t # <<>> /\ IsSpace(t[Len(t)]) THEN RStrip(SubSeq(t, 1, Len(t) - 1)) ELSE t

Strip(t) == RStrip(LStrip(t))

\* a Python value that may be None
None == [some |-> FALSE, v |-> <<>>]
Some(t) == [some |-> TRUE, v |-> t]
\* x or ""
OrEmpty(x) == IF x.some THEN x.v ELSE <<>>

LowerChar(c) ==
    CASE c = "C" -> "c" [] c = "A" -> "a" [] c = "P" -> "p"
      [] c = "T" -> "t" [] c = "H" -> "h" [] c = "N" -> "n"
      [] c = "O" -> "o" [] c = "F" -> "f" [] c = "U" -> "u"
      [] c = "D" -> "d" [] OTHER -> c

\* str.lower()
Lower(t) == [i \in 1..Len(t) |-> LowerChar(t[i])]

\* needle in hay
Contains(needle, hay) ==
    \E i \in 1..(Len(hay) - Len(needle) + 1) :
        SubSeq(hay, i, i + Len(needle) - 1) = needle

StartsWith(t, prefix) ==
    Len(t) >= Len(prefix) /\ SubSeq(t, 1, Len(prefix)) = prefix

\* an element handle or None, with the element's text_content()
NoEl == [el |-> FALSE, text |-> None]
El(t) == [el |-> TRUE, text |-> Some(t)]
ElNoText == [el |-> TRUE, text |-> None]

\* the fallback loop "for sel in [...]": query each candidate in order and
\* stop at the first whose stripped text is non-empty; n is the number of
\* candidates queried
RECURSIVE Probe(_, _)
Probe(cands, i) ==
    IF i > Len(cands) THEN [text |-> <<>>, n |-> Len(cands)]
    ELSE LET t == IF cands[i].el THEN Strip(OrEmpty(cands[i].text)) ELSE <<>>
         IN IF t # <<>> THEN [text |-> t, n |-> i] ELSE Probe(cands, i + 1)

NoneInt == [some |-> FALSE, v |-> 0]
SomeInt(n) == [some |-> TRUE, v |-> n]

Min(a, b) == IF a <= b THEN a ELSE b
Max(a, b) == IF a >= b THEN a ELSE b

\* len(xs[:c]) for a list of n elements
SliceLen(n, c) == IF c >= 0 THEN Min(c, n) ELSE Max(n + c, 0)

(* --------------------------- invocation -------------------------------- *)

\* ScrapeResult(items=..., current_page=1, has_next=False)
DefaultPage == 1
ScrapeResult(its, cp, hn) == [items |-> its, current_page |-> cp, has_next |-> hn]

NoResult == [items |-> <<>>, current_page |-> 0, has_next |-> FALSE]

Returns(r) == /\ status' = "returned" /\ result' = r /\ error' = "" /\ pc' = "done"
Raises(e) == /\ status' = "raised" /\ error' = e /\ result' = NoResult /\ pc' = "done"
Goes(l) == /\ pc' = l /\ UNCHANGED outVars

(* ------------------------------ deepl ---------------------------------- *)

LANG_PAIRS == [p \in {"de-en", "en-de"} |->
                 IF p = "de-en" THEN <<"de", "en">> ELSE <<"en", "de">>]

DeeplSupports(e) == e \in DOMAIN LANG_PAIRS

required_stable == 6
MaxPolls == 80

\* texts the model page shows
Hello == <<"hello">>
Partial == <<"Hal">>
Final == <<"Hallo">>

\* the target pane as _read_target sees it: the d-textarea (its value
\* attribute and text content) and the paragraph inside the target
TargetDom(area, value, text, p, ptext) ==
    [area |-> area, value |-> value, text |-> text, p |-> p, ptext |-> ptext]

NonEmptyStripped(x) == x.some /\ x.v # <<>> /\ Strip(x.v) # <<>>

\* _read_target: the returned text and the candidates it probed, in order
ReadTarget(d) ==
    IF d.area /\ NonEmptyStripped(d.value)
    THEN [text |-> Strip(d.value.v), queried |-> <<"value">>]
    ELSE IF d.area /\ NonEmptyStripped(d.text)
    THEN [text |-> Strip(d.text.v), queried |-> <<"value", "text_content">>]
    ELSE LET before == IF d.area THEN <<"value", "text_content">> ELSE <<>> IN
         IF d.p /\ NonEmptyStripped(d.ptext)
         THEN [text |-> Strip(d.ptext.v), queried |-> before \o <<"p">>]
         ELSE [text |-> <<>>,
               queried |-> IF d.p THEN before \o <<"p">> ELSE before]

\* PollUpdate with the first sight of a value counted as a stable check
PollUpdateCountsFirst(tr, sc, cur, query) ==
    IF cur = <<>> \/ cur = Strip(query)
    THEN [translated |-> tr, stable_count |-> 0, brk |-> FALSE]
    ELSE IF cur = tr
    THEN [translated |-> tr, stable_count |-> sc + 1,
          brk |-> sc + 1 >= required_stable]
    ELSE [translated |-> cur, stable_count |-> 1, brk |-> FALSE]

\* PollUpdate that forgets the remembered value on an empty or echo poll
PollUpdateForgets(tr, sc, cur, query) ==
    IF cur = <<>> \/ cur = Strip(query)
    THEN [translated |-> <<>>, stable_count |-> 0, brk |-> FALSE]
    ELSE IF cur = tr
    THEN [translated |-> tr, stable_count |-> sc + 1,
          brk |-> sc + 1 >= required_stable]
    ELSE [translated |-> cur, stable_count |-> 0, brk |-> FALSE]

\* one iteration of the polling loop after _read_target returned cur
PollUpdate(tr, sc, cur, query) ==
    IF cur = <<>> \/ cur = Strip(query)
    THEN [translated |-> tr, stable_count |-> 0, brk |-> FALSE]
    ELSE IF cur = tr
    THEN [translated |-> tr, stable_count |-> sc + 1,
          brk |-> sc + 1 >= required_stable]
    ELSE [translated |-> cur, stable_count |-> 0, brk |-> FALSE]

\* the polled values of the worked example: two echoes of the query, two
\* partial texts, then the final text
PollScript == <<Hello, Hello, Partial, Partial, Final, Final, Final, Final,
                Final, Final, Final>>

\* target panes the page shows while polling
TargetPages ==
    { TargetDom(FALSE, None, None, FALSE, None),
      TargetDom(TRUE, Some(<<" ", "hello">>), None, FALSE, None),
      TargetDom(TRUE, Some(<<>>), Some(Partial), FALSE, None),
      TargetDom(TRUE, Some(<<"Hallo", "\n">>), Some(Partial), TRUE, Some(Hello)),
      TargetDom(FALSE, None, None, TRUE, Some(Final)),
      TargetDom(TRUE, None, Some(<<" ">>), TRUE, Some(<<" ">>)) }

DeeplItem(src, tr, e) ==
    [source_text |-> src, translated_text |-> tr,
     source_lang |-> LANG_PAIRS[e][1], target_lang |-> LANG_PAIRS[e][2]]

\* NoWork without the strip
NoWorkUnstripped(query) == query = <<>>

\* not query.strip()
NoWork(query) == Strip(query) = <<>>

\* scrape up to the start of the polling loop
DeeplBegin ==
    /\ recipe = "deepl" /\ pc = "start"
    /\ LET query == OrEmpty(params.query) IN
       IF NoWork(query)
       THEN /\ Returns(ScrapeResult(<<DeeplItem(<<>>, <<>>, endpoint)>>,
                                    DefaultPage, FALSE))
            /\ UNCHANGED ops
       ELSE \E found \in {"element", "none", "timeout"} :
              IF found = "timeout"
              THEN /\ ops' = ops \o <<"goto", "wait_for_selector">>
                   /\ Raises("PlaywrightTimeout")
              ELSE IF found = "none"
              THEN /\ ops' = ops \o <<"goto", "wait_for_selector">>
                   /\ Raises("SourceInputNotFound")
              ELSE /\ ops' = ops \o <<"goto", "wait_for_selector", "click",
                                      "keyboard.press", "keyboard.press",
                                      "keyboard.type">>
                   /\ Goes("poll")
    /\ UNCHANGED <<commonVars, deeplVars, queried, searchVars, wikiVars, xVars, probe>>

\* one iteration of the polling loop
DeeplPoll ==
    /\ recipe = "deepl" /\ pc = "poll" /\ polls < MaxPolls
    /\ \E d \in TargetPages :
         LET rd == ReadTarget(d)
             u == PollUpdate(translated, stable_count, rd.text,
                             OrEmpty(params.query))
             trivial == rd.text = <<>> \/ rd.text = Strip(OrEmpty(params.query))
         IN /\ ops' = ops \o <<"sleep", "read_target">>
            /\ current' = rd.text
            /\ translated' = u.translated
            /\ stable_count' = u.stable_count
            /\ polls' = polls + 1
            /\ run' = IF trivial THEN 0
                      ELSE IF run > 0 /\ rd.text = current THEN run + 1 ELSE 1
            /\ script' = IF script = polls /\ polls < Len(PollScript)
                            /\ rd.text = PollScript[polls + 1]
                         THEN script + 1 ELSE 0
            /\ last_seen' = IF trivial THEN last_seen ELSE rd.text
            /\ Goes(IF u.brk \/ polls + 1 = MaxPolls THEN "after" ELSE "poll")
    /\ UNCHANGED <<commonVars, queried, searchVars, wikiVars, xVars, probe>>

\* scrape after the polling loop
DeeplFinish ==
    /\ recipe = "deepl" /\ pc = "after"
    /\ IF translated = <<>>
       THEN Raises("TranslationTimeout")
       ELSE Returns(ScrapeResult(
                <<DeeplItem(OrEmpty(params.query), translated, endpoint)>>,
                DefaultPage, FALSE))
    /\ UNCHANGED <<commonVars, ops, deeplVars, queried, searchVars, wikiVars,
                   xVars, probe>>

(* --------------------------- brave-search ------------------------------ *)

BraveSupports(e) == e = "search"

MaxCount == 50
HasNextMin == 10

\* int(params.get(key, default))
IntParam(p, default) == IF p.some THEN p.v ELSE default

\* min(int(params.get("count", default)), 50)
ClampCount(p, default) == Min(IntParam(p, default), MaxCount)

\* max(int(params.get("page", "1")), 1)
ClampPage(p) == Max(IntParam(p, 1), 1)

Captcha == <<"c", "a", "p", "t", "c", "h", "a">>

\* IsChallenge without the lower()
IsChallengeCaseSensitive(t) == Contains(Captcha, t)

\* "captcha" in title.lower()
IsChallenge(t) == Contains(Captcha, Lower(t))

\* page titles the model site answers with
Titles ==
    { <<"r", "u", "s", "t">>,
      <<"c", "a", "p", "t", "c", "h", "a">>,
      <<"C", "A", "P", "T", "C", "H", "A">>,
      <<"a", " ", "C", "a", "p", "t", "c", "h", "A", "!">> }

BraveDomain == <<"brave.com">>

RECURSIVE FirstExternal(_)
\* the first href that does not contain "brave.com", else ""
FirstExternal(links) ==
    IF links = <<>> THEN <<>>
    ELSE LET h == OrEmpty(Head(links)) IN
         IF ~Contains(BraveDomain, h) THEN h ELSE FirstExternal(Tail(links))

RECURSIVE FirstLine(_)
\* site.split("\n")[0]
FirstLine(t) ==
    IF t = <<>> \/ Head(t) = "\n" THEN <<>> ELSE <<Head(t)>> \o FirstLine(Tail(t))

\* a result snippet as _parse_snippet sees it
SnippetDom(titles, links, descs, site, throws) ==
    [titles |-> titles, links |-> links, descs |-> descs, site |-> site,
     throws |-> throws]

Cand(field, n) == {<<field, i>> : i \in 1..n}

\* ParseSnippet that keeps probing after a hit and takes the last one
RECURSIVE ProbeLast(_, _, _)
ProbeLast(cands, i, acc) ==
    IF i > Len(cands) THEN [text |-> acc, n |-> Len(cands)]
    ELSE LET t == IF cands[i].el THEN Strip(OrEmpty(cands[i].text)) ELSE <<>>
         IN ProbeLast(cands, i + 1, IF t # <<>> THEN t ELSE acc)

\* the title chain of _parse_snippet
ProbeTitleLast(d) == ProbeLast(d.titles, 1, <<>>)
ProbeTitle(d) == Probe(d.titles, 1)

\* _parse_snippet: the item (or None) and the candidates it queried
ParseSnippet(d) ==
    IF d.throws THEN [item |-> None, queried |-> {}]
    ELSE
    LET t == ProbeTitle(d)
        href == FirstExternal(d.links)
        desc == Probe(d.descs, 1)
        site == IF d.site.el
                THEN Strip(FirstLine(Strip(OrEmpty(d.site.text))))
                ELSE <<>>
        base == [title |-> t.text, url |-> href, snippet |-> desc.text]
    IN IF t.text = <<>> THEN [item |-> None, queried |-> Cand("title", t.n)]
       ELSE IF href = <<>> THEN [item |-> None, queried |-> Cand("title", t.n)]
       ELSE [item |-> Some(IF site # <<>>
                           THEN [title |-> t.text, url |-> href,
                                 snippet |-> desc.text, site |-> site]
                           ELSE base),
             queried |-> Cand("title", t.n) \cup Cand("desc", desc.n)]

ExternalLink == Some(<<"https://", "rust-lang.org">>)
SelfLink == Some(<<"https://search.", "brave.com", "/images">>)

\* snippets the model results page is made of
SnippetKinds ==
    { SnippetDom(<<El(<<"Rust">>), NoEl, NoEl>>, <<ExternalLink>>,
                 <<El(<<"A", " ", "language">>), NoEl, NoEl>>,
                 El(<<"rust-lang.org", "\n", "learn">>), FALSE),
      SnippetDom(<<NoEl, El(<<" ">>), El(<<" ", "Rust", " ", "book">>)>>,
                 <<SelfLink, ExternalLink>>, <<NoEl, ElNoText, NoEl>>,
                 NoEl, FALSE),
      SnippetDom(<<NoEl, ElNoText, El(<<>>)>>, <<ExternalLink>>,
                 <<El(<<"text">>), NoEl, NoEl>>, NoEl, FALSE),
      SnippetDom(<<El(<<"Images">>), NoEl, NoEl>>, <<SelfLink>>,
                 <<NoEl, NoEl, NoEl>>, NoEl, FALSE),
      SnippetDom(<<El(<<"Rust">>), NoEl, NoEl>>, <<ExternalLink>>,
                 <<NoEl, NoEl, NoEl>>, NoEl, TRUE) }

MaxSnippets == 3
SnippetCounts == (0..MaxSnippets) \cup {HasNextMin}

\* scrape up to and including the read of the page title
BraveBegin ==
    /\ recipe = "brave-search" /\ pc = "start"
    /\ IF Strip(OrEmpty(params.query)) = <<>>
       THEN /\ Raises("MissingQuery")
            /\ UNCHANGED <<ops, count, page_num, title>>
       ELSE /\ count' = ClampCount(params.count, 20)
            /\ page_num' = ClampPage(params.page)
            /\ \/ /\ ops' = ops \o <<"add_init_script", "goto">>
                  /\ Raises("PlaywrightTimeout")
                  /\ UNCHANGED title
               \/ /\ ops' = ops \o <<"add_init_script", "goto", "sleep", "title">>
                  /\ title' \in Titles
                  /\ Goes("check")
    /\ UNCHANGED <<commonVars, deeplVars, queried, snippets, parsed, items,
                   wikiVars, xVars, probe>>

\* the CAPTCHA check
BraveCheck ==
    /\ recipe = "brave-search" /\ pc = "check"
    /\ IF IsChallenge(title) THEN Raises("Captcha") ELSE Goes("wait")
    /\ UNCHANGED <<commonVars, ops, deeplVars, queried, searchVars, wikiVars,
                   xVars, probe>>

\* wait for the result snippets, then query them
BraveWait ==
    /\ recipe = "brave-search" /\ pc = "wait"
    /\ \/ /\ ops' = ops \o <<"wait_for_selector">>
          /\ Returns(ScrapeResult(<<>>, page_num, FALSE))
          /\ UNCHANGED snippets
       \/ /\ ops' = ops \o <<"wait_for_selector", "query_selector_all">>
          /\ snippets' \in SnippetCounts \ {0}
          /\ Goes("parse")
    /\ UNCHANGED <<commonVars, deeplVars, queried, count, page_num, title,
                   parsed, items, wikiVars, xVars, probe>>

\* one iteration of "for snippet in snippets[:count]"
BraveParse ==
    /\ recipe = "brave-search" /\ pc = "parse"
    /\ parsed < SliceLen(snippets, count)
    /\ \E d \in SnippetKinds :
         LET r == ParseSnippet(d) IN
         /\ ops' = ops \o <<"parse_snippet">>
         /\ items' = IF r.item.some THEN Append(items, r.item.v) ELSE items
    /\ parsed' = parsed + 1
    /\ Goes("parse")
    /\ UNCHANGED <<commonVars, deeplVars, queried, count, page_num, title, snippets,
                   wikiVars, xVars, probe>>

\* the return after the loop
BraveReturn ==
    /\ recipe = "brave-search" /\ pc = "parse"
    /\ parsed = SliceLen(snippets, count)
    /\ Returns(ScrapeResult(items, page_num, snippets >= HasNextMin))
    /\ UNCHANGED <<commonVars, ops, deeplVars, queried, searchVars, wikiVars,
                   xVars, probe>>

(* ----------------------------- wikipedia ------------------------------- *)

WikiSupports(e) == e \in {"search", "article"}

\* Python values of an item: str, int, list, dict (a dict is its sequence
\* of <<key, value>> pairs in insertion order)
JStr(x) == [t |-> "str", v |-> x]
JInt(n) == [t |-> "int", v |-> n]
JList(xs) == [t |-> "list", v |-> xs]
JDict(kvs) == [t |-> "dict", v |-> kvs]

RECURSIVE EscapeStr(_)
\* the body of a JSON string literal (ensure_ascii=False)
EscapeStr(x) ==
    IF x = <<>> THEN <<>>
    ELSE (CASE Head(x) = "\"" -> <<"\\", "\"">>
            [] Head(x) = "\\" -> <<"\\", "\\">>
            [] Head(x) = "\n" -> <<"\\", "n">>
            [] OTHER -> <<Head(x)>>) \o EscapeStr(Tail(x))

RECURSIVE JsonDumps(_)
RECURSIVE DumpItems(_)
RECURSIVE DumpMembers(_)

\* json.dumps(val, ensure_ascii=False): the text, as a sequence of atoms
JsonDumps(val) ==
    CASE val.t = "str" -> <<"\"">> \o EscapeStr(val.v) \o <<"\"">>
      [] val.t = "int" -> <<ToString(val.v)>>
      [] val.t = "list" -> <<"[">> \o DumpItems(val.v) \o <<"]">>
      [] val.t = "dict" -> <<"{">> \o DumpMembers(val.v) \o <<"}">>

DumpItems(xs) ==
    IF xs = <<>> THEN <<>>
    ELSE JsonDumps(Head(xs))
         \o (IF Len(xs) > 1 THEN <<", ">> \o DumpItems(Tail(xs)) ELSE <<>>)

DumpMembers(kvs) ==
    IF kvs = <<>> THEN <<>>
    ELSE JsonDumps(JStr(Head(kvs)[1])) \o <<": ">> \o JsonDumps(Head(kvs)[2])
         \o (IF Len(kvs) > 1 THEN <<", ">> \o DumpMembers(Tail(kvs)) ELSE <<>>)

\* what the extraction helpers (_extract_summary, _extract_infobox,
\* _extract_toc, _extract_sections, _extract_categories) returned for an
\* article page: any str, dict of str, list of str, list of section dicts
ArticlePage(titleEl, summary, infobox, toc, sections, categories, langs) ==
    [titleEl |-> titleEl, summary |-> summary, infobox |-> infobox,
     toc |-> toc, sections |-> sections, categories |-> categories,
     lang_count |-> langs]

NoArticle == ArticlePage(NoEl, <<>>, <<>>, <<>>, <<>>, <<>>, 0)

Section(heading, level, content) ==
    JDict(<< <<<<"heading">>, JStr(heading)>>, <<<<"level">>, JStr(<<level>>)>>,
             <<<<"content">>, JStr(content)>> >>)

StrList(xs) == [i \in 1..Len(xs) |-> JStr(xs[i])]
StrDict(kvs) == [i \in 1..Len(kvs) |-> <<kvs[i][1], JStr(kvs[i][2])>>]

Opt(key, present, val) == IF present THEN key :> val ELSE <<>>

\* the item dict of _extract_article before serialisation
RawItem(a, pageUrl) ==
    Opt("title", a.titleEl.el, JStr(Strip(OrEmpty(a.titleEl.text))))
    @@ ("url" :> JStr(pageUrl))
    @@ ("summary" :> JStr(a.summary))
    @@ Opt("infobox", a.infobox # <<>>, JDict(StrDict(a.infobox)))
    @@ Opt("table_of_contents", a.toc # <<>>, JList(StrList(a.toc)))
    @@ ("sections" :> JList(a.sections))
    @@ Opt("categories", a.categories # <<>>, JList(StrList(a.categories)))
    @@ Opt("languages_available", a.lang_count # 0, JInt(a.lang_count))

\* Flatten that serialises lists only
FlattenListsOnly(item) ==
    [k \in DOMAIN item |->
       IF item[k].t = "list" THEN JStr(JsonDumps(item[k])) ELSE item[k]]

\* the loop "for key, val in item.items(): if isinstance(val, (list, dict))"
Flatten(item) ==
    [k \in DOMAIN item |->
       IF item[k].t \in {"list", "dict"} THEN JStr(JsonDumps(item[k]))
       ELSE item[k]]

\* _extract_article
ExtractArticle(a, pageUrl) ==
    ScrapeResult(<<Flatten(RawItem(a, pageUrl))>>, 1, FALSE)

\* _article_from_redirect
ArticleFromRedirect(a, pageUrl, original_query) ==
    LET r == ExtractArticle(a, pageUrl) IN
    IF r.items # <<>>
    THEN [r EXCEPT !.items[1] =
            ("redirected_from" :> JStr(original_query)) @@ r.items[1]]
    ELSE r

\* "/wiki/" in page.url and "Special:Search" not in page.url
IsArticleUrl(u) == Contains(<<"/wiki/">>, u) /\ ~Contains(<<"Special:Search">>, u)

ArticleUrl == <<"https://en.wikipedia.org", "/wiki/", "Rust">>
SearchUrls ==
    { <<"https://en.wikipedia.org", "/w/index.php?search=", "hello",
        "&title=", "Special:Search">>,
      <<"https://en.wikipedia.org", "/wiki/", "Special:Search", "?search=",
        "hello">> }

\* article pages of the model site
ArticlePages ==
    { ArticlePage(El(<<" ", "Rust", "\n">>), <<"Rust", " ", "is", "\n", "\n", "It">>,
                  << <<<<"Paradigm">>, <<"multi">>>>,
                     <<<<"Typing">>, <<"static", ", ", "\"", "strong", "\"">>>> >>,
                  << <<"History">>, <<"Syntax">> >>,
                  << Section(<<"History">>, "h2", <<"In", " ", "2006">>),
                     Section(<<"Early", " ", "years">>, "h3",
                             <<"a", "\n", "\n", "b", "\\", "c">>) >>,
                  << <<"Programming", " ", "languages">> >>, 3),
      ArticlePage(NoEl, <<>>, <<>>, <<>>, <<>>, <<>>, 0),
      ArticlePage(ElNoText, <<"[", "1", "]">>, <<>>, << <<"]", ", ", "[">> >>,
                  << Section(<<"{", "}">>, "h2", <<>>) >>, <<>>, 1) }

\* a search result entry as _extract_search_results sees it
ResultDom(heading, href, snippet, size, throws) ==
    [heading |-> heading, href |-> href, snippet |-> snippet, size |-> size,
     throws |-> throws]

WikiHost == <<"https://en.wikipedia.org">>

\* one iteration of the loop of _extract_search_results: the item or None
ParseResult(d) ==
    IF d.throws \/ ~d.heading.el THEN None
    ELSE LET t == Strip(OrEmpty(d.heading.text))
             href == OrEmpty(d.href)
             u == IF StartsWith(href, <<"/">>) THEN WikiHost \o href ELSE href
             snippet == IF d.snippet.el THEN Strip(OrEmpty(d.snippet.text))
                        ELSE <<>>
             size_info == IF d.size.el THEN Strip(OrEmpty(d.size.text)) ELSE <<>>
         IN Some(IF size_info # <<>>
                 THEN [title |-> t, url |-> u, snippet |-> snippet,
                       size_info |-> size_info]
                 ELSE [title |-> t, url |-> u, snippet |-> snippet])

ResultKinds ==
    { ResultDom(El(<<"Rust">>), Some(<<"/", "wiki/Rust">>), El(<<"A", " ">>),
                El(<<"12", " ", "KB">>), FALSE),
      ResultDom(El(<<" ">>), None, NoEl, ElNoText, FALSE),
      ResultDom(NoEl, None, El(<<"x">>), NoEl, FALSE),
      ResultDom(El(<<"Rust">>), Some(<<"/", "wiki/Rust">>), NoEl, NoEl, TRUE) }

\* _search up to and including the navigation
WikiSearchBegin ==
    /\ recipe = "wikipedia" /\ endpoint = "search" /\ pc = "start"
    /\ IF Strip(OrEmpty(params.query)) = <<>>
       THEN /\ Raises("MissingQuery")
            /\ UNCHANGED <<ops, count, page_num, url>>
       ELSE /\ count' = ClampCount(params.count, 20)
            /\ page_num' = ClampPage(params.page)
            /\ ops' = ops \o <<"goto">>
            /\ \/ Raises("PlaywrightTimeout") /\ UNCHANGED url
               \/ /\ url' \in {ArticleUrl} \cup SearchUrls
                  /\ Goes(IF IsArticleUrl(url') THEN "extract" ELSE "wait")
    /\ UNCHANGED <<commonVars, deeplVars, queried, title, snippets, parsed,
                   items, article, xVars, probe>>

\* wait for the results list or the no-results marker
WikiSearchWait ==
    /\ recipe = "wikipedia" /\ pc = "wait"
    /\ \/ /\ ops' = ops \o <<"wait_for_selector">>
          /\ Raises("PlaywrightTimeout")
          /\ UNCHANGED snippets
       \/ /\ ops' = ops \o <<"wait_for_selector", "query_selector">>
          /\ Returns(ScrapeResult(<<>>, page_num, FALSE))
          /\ UNCHANGED snippets
       \/ /\ ops' = ops \o <<"wait_for_selector", "query_selector",
                              "query_selector_all">>
          /\ snippets' \in 0..MaxSnippets
          /\ Goes("results")
    /\ UNCHANGED <<commonVars, deeplVars, queried, count, page_num, title,
                   parsed, items, wikiVars, xVars, probe>>

\* one iteration of "for result in results[:count]"
WikiSearchParse ==
    /\ recipe = "wikipedia" /\ pc = "results"
    /\ parsed < SliceLen(snippets, count)
    /\ \E d \in ResultKinds :
         LET r == ParseResult(d) IN
         /\ ops' = ops \o <<"parse_result">>
         /\ items' = IF r.some THEN Append(items, r.v) ELSE items
    /\ parsed' = parsed + 1
    /\ Goes("results")
    /\ UNCHANGED <<commonVars, deeplVars, queried, count, page_num, title,
                   snippets, wikiVars, xVars, probe>>

\* the next-link check and the return of _search
WikiSearchReturn ==
    /\ recipe = "wikipedia" /\ pc = "results"
    /\ parsed = SliceLen(snippets, count)
    /\ ops' = ops \o <<"query_selector">>
    /\ \E nextlink \in BOOLEAN : Returns(ScrapeResult(items, page_num, nextlink))
    /\ UNCHANGED <<commonVars, deeplVars, queried, searchVars, wikiVars, xVars,
                   probe>>

\* _article up to the missing-article check
WikiArticleBegin ==
    /\ recipe = "wikipedia" /\ endpoint = "article" /\ pc = "start"
    /\ IF Strip(OrEmpty(params.query)) = <<>>
       THEN Raises("MissingTitle") /\ UNCHANGED <<ops, url>>
       ELSE \/ /\ ops' = ops \o <<"goto">>
               /\ Raises("PlaywrightTimeout") /\ UNCHANGED url
            \/ /\ ops' = ops \o <<"goto", "query_selector">>
               /\ url' = ArticleUrl
               /\ \/ Raises("ArticleNotFound")
                  \/ Goes("extract")
    /\ UNCHANGED <<commonVars, deeplVars, queried, searchVars, article, xVars,
                   probe>>

\* _extract_article, through _article_from_redirect when reached by search
WikiExtract ==
    /\ recipe = "wikipedia" /\ pc = "extract"
    /\ ops' = ops \o <<"extract_article">>
    /\ article' \in ArticlePages
    /\ Returns(IF endpoint = "search"
               THEN ArticleFromRedirect(article', url,
                                        Strip(OrEmpty(params.query)))
               ELSE ExtractArticle(article', url))
    /\ UNCHANGED <<commonVars, deeplVars, queried, searchVars, url, xVars, probe>>

(* --------------------------------- x ----------------------------------- *)

XSupports(e) == e = "posts"

RECURSIVE LStripAt(_)
\* str.lstrip("@")
LStripAt(t) == IF t # <<>> /\ Head(t) = "@" THEN LStripAt(Tail(t)) ELSE t

RECURSIVE AfterFirstEq(_)
\* line.split("=", 1)[1]
AfterFirstEq(t) == IF Head(t) = "=" THEN Tail(t) ELSE AfterFirstEq(Tail(t))

\* BIRD_AUTH_TOKEN and BIRD_CT0 of the environment, and ~/.bird_auth
AuthSource(envToken, envCt0, exists, lines) ==
    [loaded |-> TRUE, envToken |-> envToken, envCt0 |-> envCt0,
     exists |-> exists, lines |-> lines]

NoAuth == [loaded |-> FALSE, envToken |-> <<>>, envCt0 |-> <<>>,
           exists |-> FALSE, lines |-> <<>>]

RECURSIVE ReadAuthFile(_, _, _)
\* the loop "for line in f" of _load_auth
ReadAuthFile(lines, tok, c) ==
    IF lines = <<>> THEN [auth_token |-> tok, ct0 |-> c]
    ELSE LET line == Strip(Head(lines)) IN
         IF StartsWith(line, <<"AUTH_TOKEN", "=">>)
         THEN ReadAuthFile(Tail(lines), AfterFirstEq(line), c)
         ELSE IF StartsWith(line, <<"CT0", "=">>)
         THEN ReadAuthFile(Tail(lines), tok, AfterFirstEq(line))
         ELSE ReadAuthFile(Tail(lines), tok, c)

\* LoadAuth that raises only when both credentials are missing
LoadAuthEitherSuffices(a) ==
    IF a.envToken # <<>> /\ a.envCt0 # <<>>
    THEN [ok |-> TRUE, auth_token |-> a.envToken, ct0 |-> a.envCt0]
    ELSE LET r == IF a.exists THEN ReadAuthFile(a.lines, a.envToken, a.envCt0)
                  ELSE [auth_token |-> a.envToken, ct0 |-> a.envCt0]
         IN [ok |-> ~(r.auth_token = <<>> /\ r.ct0 = <<>>),
             auth_token |-> r.auth_token, ct0 |-> r.ct0]

\* _load_auth: ok is FALSE when it raises
LoadAuth(a) ==
    IF a.envToken # <<>> /\ a.envCt0 # <<>>
    THEN [ok |-> TRUE, auth_token |-> a.envToken, ct0 |-> a.envCt0]
    ELSE LET r == IF a.exists THEN ReadAuthFile(a.lines, a.envToken, a.envCt0)
                  ELSE [auth_token |-> a.envToken, ct0 |-> a.envCt0]
         IN [ok |-> ~(r.auth_token = <<>> \/ r.ct0 = <<>>),
             auth_token |-> r.auth_token, ct0 |-> r.ct0]

MaxLines == 2

AuthLines ==
    { <<"AUTH_TOKEN", "=", "tokF">>, <<" ", "CT0", "=", "ctF", "=", "\n">>,
      <<"AUTH_TOKEN", "=">>, <<"#", "CT0", "=", "x">> }

RECURSIVE SeqsUpTo(_, _)
\* the sequences over S of length at most n
SeqsUpTo(S, n) ==
    IF n = 0 THEN {<<>>}
    ELSE LET shorter == SeqsUpTo(S, n - 1) IN
         shorter \cup {Append(q, x) : q \in shorter, x \in S}

AuthSources ==
    {AuthSource(t, c, FALSE, <<>>) : t \in {<<>>, <<"tokE">>}, c \in {<<>>, <<"ctE">>}}
    \cup {AuthSource(t, c, TRUE, ls) :
            t \in {<<>>, <<"tokE">>}, c \in {<<>>, <<"ctE">>},
            ls \in SeqsUpTo(AuthLines, MaxLines)}

\* a tweet object of bird's JSON output; dict is FALSE for an array
\* element that is not an object
Tweet(dict, author, text, id, created, likes) ==
    [dict |-> dict, author |-> author, text |-> text, id |-> id,
     createdAt |-> created, likeCount |-> likes]

\* the item built from one tweet
TweetItem(tw, username) ==
    LET author_username ==
            IF tw.author.some /\ tw.author.v.username.some
            THEN tw.author.v.username.v ELSE username
        txt == OrEmpty(tw.text)
    IN [text |-> txt,
        author |-> author_username,
        author_name |-> IF tw.author.some THEN OrEmpty(tw.author.v.name) ELSE <<>>,
        timestamp |-> OrEmpty(tw.createdAt),
        url |-> <<"https://x.com/">> \o author_username \o <<"/status/">>
                \o OrEmpty(tw.id),
        likes |-> tw.likeCount,
        is_retweet |-> StartsWith(txt, <<"RT", " ", "@">>)]

TweetKinds ==
    { Tweet(TRUE, Some([username |-> Some(<<"nasa">>), name |-> Some(<<"NASA">>)]),
            Some(<<"Launch">>), Some(<<"1">>), Some(<<"Mon">>), SomeInt(5)),
      Tweet(TRUE, None, Some(<<"RT", " ", "@", "esa">>), None, None, NoneInt),
      Tweet(FALSE, None, None, None, None, NoneInt) }

MaxTweets == 2

\* what bird printed on standard output: text before the first "[" and
\* what follows it ("none": no "[" at all, "invalid": not parseable JSON)
Stdouts ==
    { [kind |-> "none", tweets |-> <<>>], [kind |-> "invalid", tweets |-> <<>>] }
    \cup {[kind |-> "array", tweets |-> ts] : ts \in SeqsUpTo(TweetKinds, MaxTweets)}

Stderrs ==
    { <<"Could not find user">>, <<"user", " ", "N", "o", "t", " ", "F", "O", "U", "N", "D">>,
      <<"rate", " ", "limit">> }

IsNotFound(error_msg) ==
    \/ Contains(<<"Could not find user">>, error_msg)
    \/ Contains(<<"n", "o", "t", " ", "f", "o", "u", "n", "d">>, Lower(error_msg))

NoProc == [returncode |-> 0, stderr |-> <<>>, stdout |-> [kind |-> "none", tweets |-> <<>>]]

Username(p) == LStripAt(Strip(OrEmpty(p.query)))

\* scrape up to the count clamp
XBegin ==
    /\ recipe = "x" /\ pc = "start"
    /\ IF Username(params) = <<>>
       THEN Raises("MissingUsername") /\ UNCHANGED count
       ELSE count' = ClampCount(params.count, 10) /\ Goes("auth")
    /\ UNCHANGED <<commonVars, ops, deeplVars, queried, page_num, title,
                   snippets, parsed, items, wikiVars, xVars, probe>>

\* auth_token, ct0 = _load_auth()
XLoadAuth ==
    /\ recipe = "x" /\ pc = "auth"
    /\ \E a \in AuthSources :
         LET r == LoadAuth(a) IN
         /\ auth' = a
         /\ ops' = IF a.exists /\ ~(a.envToken # <<>> /\ a.envCt0 # <<>>)
                   THEN ops \o <<"open_bird_auth">> ELSE ops
         /\ IF r.ok
            THEN auth_token' = r.auth_token /\ ct0' = r.ct0 /\ Goes("exec")
            ELSE Raises("MissingCredentials") /\ UNCHANGED <<auth_token, ct0>>
    /\ UNCHANGED <<commonVars, deeplVars, queried, searchVars, wikiVars, proc,
                   probe>>

\* create_subprocess_exec and wait_for(proc.communicate(), timeout=30)
XExec ==
    /\ recipe = "x" /\ pc = "exec"
    /\ \/ /\ ops' = ops \o <<"subprocess">>
          /\ Raises("FileNotFoundError") /\ UNCHANGED proc
       \/ /\ ops' = ops \o <<"subprocess", "communicate">>
          /\ Raises("TimeoutError") /\ UNCHANGED proc
       \/ /\ ops' = ops \o <<"subprocess", "communicate">>
          /\ \E e \in Stderrs :
               proc' = [returncode |-> 1, stderr |-> e, stdout |-> NoProc.stdout]
          /\ Goes("exited")
       \/ /\ ops' = ops \o <<"subprocess", "communicate">>
          /\ \E o \in Stdouts :
               proc' = [returncode |-> 0, stderr |-> <<>>, stdout |-> o]
          /\ Goes("exited")
    /\ UNCHANGED <<commonVars, deeplVars, queried, searchVars, wikiVars, auth,
                   auth_token, ct0, probe>>

\* scrape after the subprocess has exited
XHandle ==
    /\ recipe = "x" /\ pc = "exited"
    /\ LET tweets_data == proc.stdout.tweets
           n == SliceLen(Len(tweets_data), count)
       IN IF proc.returncode # 0
          THEN /\ IF IsNotFound(Strip(proc.stderr))
                  THEN Raises("AccountNotFound") ELSE Raises("BirdFailed")
               /\ UNCHANGED items
          ELSE IF proc.stdout.kind = "none"
          THEN Raises("NoJson") /\ UNCHANGED items
          ELSE IF proc.stdout.kind = "invalid"
          THEN Raises("JSONDecodeError") /\ UNCHANGED items
          ELSE IF \E i \in 1..n : ~tweets_data[i].dict
          THEN Raises("AttributeError") /\ UNCHANGED items
          ELSE /\ items' = [i \in 1..n |-> TweetItem(tweets_data[i], Username(params))]
               /\ Returns(ScrapeResult(items', 1, Len(tweets_data) > count))
    /\ UNCHANGED <<commonVars, ops, deeplVars, queried, count, page_num, title,
                   snippets, parsed, wikiVars, xVars, probe>>

(* --------------------------- specification ----------------------------- *)

Recipes == {"brave-search", "deepl", "wikipedia", "x"}

Supports(r, e) ==
    CASE r = "deepl" -> DeeplSupports(e)
      [] r = "brave-search" -> BraveSupports(e)
      [] r = "wikipedia" -> WikiSupports(e)
      [] r = "x" -> XSupports(e)
      [] OTHER -> FALSE

EndpointNames == {"search", "article", "posts", "de-en", "en-de"}

\* request parameters tried per recipe.  count and page are the integers
\* their strings denote (int() of a non-numeric string is not modelled);
\* deepl reads neither, x reads no page.
Counts(r) ==
    IF r = "deepl" THEN {NoneInt, SomeInt(0)}
    ELSE {NoneInt, SomeInt(-1), SomeInt(0), SomeInt(2), SomeInt(51)}
Pages(r) ==
    IF r \in {"deepl", "x"} THEN {NoneInt}
    ELSE {NoneInt, SomeInt(0), SomeInt(2)}
Queries(r) ==
    IF r = "x" THEN {None, Some(<<"@">>), Some(<<" ", "@", "@", "nasa">>)}
    ELSE {None, Some(<<>>), Some(<<" ">>), Some(<<" ", "hello", "\n">>)}

Init ==
    /\ recipe \in Recipes
    /\ endpoint \in {e \in EndpointNames : Supports(recipe, e)}
    /\ params \in [query : Queries(recipe), count : Counts(recipe),
                    page : Pages(recipe)]
    /\ pc = "start" /\ status = "running" /\ error = "" /\ result = NoResult
    /\ ops = <<>>
    /\ translated = <<>> /\ stable_count = 0 /\ polls = 0 /\ current = <<>>
    /\ run = 0 /\ script = 0 /\ last_seen = <<>> /\ queried = <<>>
    /\ count = 0 /\ page_num = 0 /\ title = <<>> /\ snippets = 0
    /\ parsed = 0 /\ items = <<>>
    /\ url = <<>> /\ article = NoArticle
    /\ auth = NoAuth /\ auth_token = <<>> /\ ct0 = <<>> /\ proc = NoProc
    /\ probe = <<>>

Next ==
    \/ DeeplBegin
    \/ DeeplPoll
    \/ DeeplFinish
    \/ BraveBegin
    \/ BraveCheck
    \/ BraveWait
    \/ BraveParse
    \/ BraveReturn
    \/ WikiSearchBegin
    \/ WikiSearchWait
    \/ WikiSearchParse
    \/ WikiSearchReturn
    \/ WikiArticleBegin
    \/ WikiExtract
    \/ XBegin
    \/ XLoadAuth
    \/ XExec
    \/ XHandle

Spec == Init /\ [][Next]_vars

(* ------------------ specification of the fallback chains --------------- *)

\* candidate elements of a chain: absent, blank, or with a text of its own
CandEls(name) == {NoEl, El(<<" ", "\n">>), El(<<" ", name, " ">>)}

ProbeSnippets ==
    { SnippetDom(<<t1, t2, t3>>, links, <<d1, d2, d3>>, site, FALSE) :
        t1 \in CandEls("T1"), t2 \in CandEls("T2"), t3 \in CandEls("T3"),
        links \in {<<>>, <<SelfLink>>, <<SelfLink, ExternalLink>>},
        d1 \in CandEls("D1"), d2 \in CandEls("D2"), d3 \in CandEls("D3"),
        site \in {NoEl, ElNoText} }
    \cup {SnippetDom(<<El(<<"T1">>), NoEl, NoEl>>, <<ExternalLink>>,
                     <<NoEl, NoEl, NoEl>>, NoEl, TRUE)}

ProbeTargets ==
    { TargetDom(area, value, text, p, ptext) :
        area \in BOOLEAN,
        value \in {None, Some(<<>>), Some(<<" ">>), Some(<<" ", "V">>)},
        text \in {None, Some(<<"\n">>), Some(<<"X", " ">>)},
        p \in BOOLEAN,
        ptext \in {None, Some(<<" ">>), Some(<<"P">>)} }

InitFallback ==
    /\ recipe \in {"brave-search", "deepl"}
    /\ endpoint = IF recipe = "deepl" THEN "en-de" ELSE "search"
    /\ params = [query |-> Some(Hello), count |-> NoneInt, page |-> NoneInt]
    /\ probe \in IF recipe = "deepl" THEN ProbeTargets ELSE ProbeSnippets
    /\ pc = "probe" /\ status = "running" /\ error = "" /\ result = NoResult
    /\ ops = <<>>
    /\ translated = <<>> /\ stable_count = 0 /\ polls = 0 /\ current = <<>>
    /\ run = 0 /\ script = 0 /\ last_seen = <<>> /\ queried = {}
    /\ count = 0 /\ page_num = 0 /\ title = <<>> /\ snippets = 0
    /\ parsed = 0 /\ items = <<>>
    /\ url = <<>> /\ article = NoArticle
    /\ auth = NoAuth /\ auth_token = <<>> /\ ct0 = <<>> /\ proc = NoProc

\* item = await self._parse_snippet(snippet); if item: items.append(item)
ProbeParse ==
    /\ recipe = "brave-search" /\ pc = "probe"
    /\ LET r == ParseSnippet(probe) IN
       /\ items' = IF r.item.some THEN Append(items, r.item.v) ELSE items
       /\ queried' = r.queried
    /\ pc' = "probed"
    /\ UNCHANGED <<commonVars, outVars, ops, deeplVars, count, page_num, title,
                   snippets, parsed, wikiVars, xVars, probe>>

\* current = await self._read_target(page)
ProbeRead ==
    /\ recipe = "deepl" /\ pc = "probe"
    /\ LET r == ReadTarget(probe) IN
       /\ current' = r.text
       /\ queried' = {r.queried[i] : i \in 1..Len(r.queried)}
    /\ pc' = "probed"
    /\ UNCHANGED <<commonVars, outVars, ops, translated, stable_count, polls,
                   run, script, last_seen, searchVars, wikiVars, xVars, probe>>

NextFallback == ProbeParse \/ ProbeRead

SpecFallback == InitFallback /\ [][NextFallback]_vars

(* ------------------------------ claims --------------------------------- *)

Polling == recipe = "deepl" /\ pc = "poll"
LoopLeft == recipe = "deepl" /\ pc \in {"after", "done"} /\ polls > 0

\* C1 (as stated): polling stops at the first poll at which the same
\* non-trivial value has been observed 6 times in a row; after the ten
\* observations q, q, partial, partial, final x 6 the loop has stopped.
C1_StopsAtSixInARow ==
    /\ (Polling => run < required_stable)
    /\ (recipe = "deepl" /\ script = 10 => pc # "poll")

\* C1 (amended): the counter counts checks that found the remembered value
\* unchanged, so the first sight of a value does not count.  After the ten
\* observations of the example the loop is still polling with the counter
\* at 5 and stops, returning "final", at the seventh "final" (poll 11).  In
\* general the loop leaves early exactly when the counter reaches 6, the
\* counter is the length of the run of identical non-trivial observations
\* or one less, and a run of 7 never leaves the loop polling.
C1_StopsAfterSixUnchangedChecks ==
    recipe = "deepl" =>
      /\ (script = 10 => Polling /\ stable_count = 5 /\ translated = Final)
      /\ (script = 11 => /\ LoopLeft /\ polls = 11
                         /\ stable_count = required_stable
                         /\ translated = Final
                         /\ (pc = "done" =>
                               /\ status = "returned"
                               /\ result.items[1].translated_text = Final))
      /\ stable_count <= run
      /\ (run >= 1 => stable_count >= run - 1 /\ translated = current)
      /\ (Polling => stable_count < required_stable /\ run <= required_stable)
      /\ (LoopLeft /\ polls < MaxPolls => stable_count = required_stable)
      /\ (LoopLeft /\ stable_count = required_stable =>
            run \in {required_stable, required_stable + 1})

C1_Witness ==
    recipe = "deepl" /\ script = 11 /\ pc = "done" /\ status = "returned"

\* C2: when the 80 polls end without any value having stabilised, scrape
\* fails with the timeout error and returns no result.
C2_TimeoutWhenNeverStable ==
    (recipe = "deepl" /\ pc = "done" /\ polls = MaxPolls
       /\ stable_count < required_stable)
    => (status = "raised" /\ error = "TranslationTimeout")

\* absent, empty or whitespace-only
Blank(q) == ~q.some \/ \A i \in 1..Len(q.v) : q.v[i] \in {" ", "\n"}

\* C5: on a blank query the translation recipe performs no page operation
\* and returns exactly one item with empty source and translated text.
C5_EmptyInputNoNavigation ==
    (recipe = "deepl" /\ Blank(params.query)) =>
      /\ ops = <<>>
      /\ status # "raised"
      /\ (pc = "done" =>
            /\ status = "returned"
            /\ Len(result.items) = 1
            /\ result.items[1].source_text = <<>>
            /\ result.items[1].translated_text = <<>>)

C5_Witness ==
    /\ recipe = "deepl" /\ endpoint = "en-de" /\ params.query = Some(<<" ">>)
    /\ status = "returned"


InOps(o) == \E i \in 1..Len(ops) : ops[i] = o

CaptchaLetters == <<{"c", "C"}, {"a", "A"}, {"p", "P"}, {"t", "T"},
                    {"c", "C"}, {"h", "H"}, {"a", "A"}>>

\* the title contains "captcha" in some mix of letter cases
HasCaptchaAnyCase(t) ==
    \E i \in 1..Len(t) :
        /\ i + 6 <= Len(t)
        /\ \A j \in 1..7 : t[i + j - 1] \in CaptchaLetters[j]

ExtractionOps == {"wait_for_selector", "query_selector_all", "parse_snippet"}

\* C4: once the title read after navigation contains "captcha" in any
\* letter case, the search-engine scrape performs no extraction step and
\* ends with the Blocked (CAPTCHA) error, never with a result.
C4_BlockedBeforeExtraction ==
    (recipe = "brave-search" /\ InOps("title") /\ HasCaptchaAnyCase(title)) =>
      /\ \A i \in 1..Len(ops) : ops[i] \notin ExtractionOps
      /\ pc \in {"check", "done"}
      /\ (pc = "done" => status = "raised" /\ error = "Captcha")

C4_Witness ==
    /\ recipe = "brave-search" /\ status = "raised" /\ error = "Captcha"
    /\ title = <<"C", "A", "P", "T", "C", "H", "A">>

MaxInt == 9

RECURSIVE ReadChars(_)
\* reads the body of a JSON string literal up to its closing quote
ReadChars(toks) ==
    IF Head(toks) = "\"" THEN [v |-> <<>>, rest |-> Tail(toks)]
    ELSE IF Head(toks) = "\\"
    THEN LET r == ReadChars(Tail(Tail(toks)))
             c == IF toks[2] = "n" THEN "\n" ELSE toks[2]
         IN [v |-> <<c>> \o r.v, rest |-> r.rest]
    ELSE LET r == ReadChars(Tail(toks))
         IN [v |-> <<Head(toks)>> \o r.v, rest |-> r.rest]

RECURSIVE ReadValue(_)
RECURSIVE ReadItems(_)
RECURSIVE ReadMembers(_)

\* a JSON reader written from the JSON grammar: the value at the front of
\* toks and the atoms left after it
ReadValue(toks) ==
    CASE Head(toks) = "\"" ->
           LET r == ReadChars(Tail(toks)) IN [v |-> JStr(r.v), rest |-> r.rest]
      [] Head(toks) = "[" ->
           IF toks[2] = "]" THEN [v |-> JList(<<>>), rest |-> Tail(Tail(toks))]
           ELSE LET r == ReadItems(Tail(toks)) IN [v |-> JList(r.v), rest |-> r.rest]
      [] Head(toks) = "{" ->
           IF toks[2] = "}" THEN [v |-> JDict(<<>>), rest |-> Tail(Tail(toks))]
           ELSE LET r == ReadMembers(Tail(toks)) IN [v |-> JDict(r.v), rest |-> r.rest]
      [] OTHER ->
           [v |-> JInt(CHOOSE n \in 0..MaxInt : ToString(n) = Head(toks)),
            rest |-> Tail(toks)]

ReadItems(toks) ==
    LET x == ReadValue(toks) IN
    IF Head(x.rest) = ", "
    THEN LET r == ReadItems(Tail(x.rest)) IN [v |-> <<x.v>> \o r.v, rest |-> r.rest]
    ELSE [v |-> <<x.v>>, rest |-> Tail(x.rest)]

ReadMembers(toks) ==
    LET k == ReadChars(Tail(toks))
        x == ReadValue(Tail(k.rest))
    IN IF Head(x.rest) = ", "
       THEN LET r == ReadMembers(Tail(x.rest))
            IN [v |-> <<<<k.v, x.v>>>> \o r.v, rest |-> r.rest]
       ELSE [v |-> <<<<k.v, x.v>>>>, rest |-> Tail(x.rest)]

\* the text is the JSON encoding of val: reading it back gives val
Encodes(text, val) ==
    LET r == ReadValue(text) IN r.rest = <<>> /\ r.v = val

ScalarKeys == {"title", "url", "summary", "languages_available"}
NestedKeys == {"infobox", "table_of_contents", "sections", "categories"}

ArticleReturned ==
    recipe = "wikipedia" /\ status = "returned" /\ InOps("extract_article")

\* C8: the record returned by article extraction (article endpoint or
\* search redirect) holds no list or mapping: each nested field present is
\* a string that reads back as the extracted structure, and each scalar
\* field has the value it had before serialisation.
C8_ScalarFlattening ==
    ArticleReturned =>
      LET it == result.items[1]
          raw == RawItem(article, url)
      IN /\ Len(result.items) = 1
         /\ \A k \in DOMAIN it : it[k].t \in {"str", "int"}
         /\ DOMAIN it = DOMAIN raw
                \cup (IF endpoint = "search" THEN {"redirected_from"} ELSE {})
         /\ \A k \in NestedKeys \cap DOMAIN raw :
               raw[k].t \in {"list", "dict"} /\ Encodes(it[k].v, raw[k])
         /\ \A k \in ScalarKeys \cap DOMAIN raw : it[k] = raw[k]
         /\ it["url"] = JStr(url)
         /\ ("infobox" \in DOMAIN it <=> article.infobox # <<>>)
         /\ "sections" \in DOMAIN it
         /\ (endpoint = "search" =>
               it["redirected_from"] = JStr(Strip(params.query.v)))

C8_Witness ==
    /\ ArticleReturned /\ endpoint = "search"
    /\ {"infobox", "table_of_contents", "categories"} \subseteq DOMAIN result.items[1]

\* the count the caller asked for: the count parameter, else the default
\* of the recipes that read one
HasRequestedCount ==
    params.count.some \/ recipe \in {"brave-search", "x"}
        \/ (recipe = "wikipedia" /\ endpoint = "search")
RequestedCount ==
    IF params.count.some THEN params.count.v
    ELSE IF recipe = "x" THEN 10 ELSE 20

\* C3: every returned result has at most the requested number of items
\* and a page number >= 1, for every integer count and page.
C3_ItemsWithinCountAndPagePositive ==
    status = "returned" =>
      /\ (HasRequestedCount => Len(result.items) <= RequestedCount)
      /\ result.current_page >= 1

\* the credential has no non-empty value in the environment nor on any
\* line of the credentials file
Unavailable(envValue, key) ==
    /\ envValue = <<>>
    /\ \/ ~auth.exists
       \/ \A i \in 1..Len(auth.lines) :
            LET line == Strip(auth.lines[i]) IN
            ~(Len(line) > 2 /\ line[1] = key /\ line[2] = "=")

\* C6: with a credential unavailable from both the environment and the
\* credentials file the posts scrape fails with the missing-credentials
\* error and never starts the subprocess; the subprocess is started only
\* after both credentials resolved to non-empty strings.
C6_NoSubprocessWithoutCredentials ==
    recipe = "x" =>
      /\ (auth.loaded /\ (Unavailable(auth.envToken, "AUTH_TOKEN")
                            \/ Unavailable(auth.envCt0, "CT0"))
            => /\ status = "raised" /\ error = "MissingCredentials"
               /\ ~InOps("subprocess"))
      /\ (InOps("subprocess") => auth.loaded /\ auth_token # <<>> /\ ct0 # <<>>)
      /\ (status = "raised" /\ error = "MissingCredentials" => ~InOps("subprocess"))

C6_Witness ==
    /\ recipe = "x" /\ status = "raised" /\ error = "MissingCredentials"
    /\ auth.envToken # <<>> /\ auth.exists /\ auth.lines # <<>>

\* C7: every endpoint name is supported by at most one of the four recipes.
C7_EndpointOwnerUnique ==
    Cardinality({r \in Recipes : Supports(r, endpoint)}) <= 1

\* C10: on every successful return of a search endpoint current_page is
\* the requested page (the 1-based page parameter, 1 when it is absent).
C10_CurrentPageIsRequested ==
    (status = "returned" /\ endpoint = "search"
       /\ (params.page.some => params.page.v >= 1))
    => result.current_page = (IF params.page.some THEN params.page.v ELSE 1)

\* the candidate yields non-empty trimmed text
Yields(c) == c.el /\ c.text.some /\ \E i \in 1..Len(c.text.v) : ~IsSpace(c.text.v[i])
OnlyYields(cands, k) == \A j \in 1..Len(cands) : Yields(cands[j]) <=> j = k
NoneYields(cands) == \A j \in 1..Len(cands) : ~Yields(cands[j])
HasExternal(links) ==
    \E i \in 1..Len(links) : links[i].some /\ ~Contains(BraveDomain, links[i].v)

\* the three candidates of _read_target as elements
TargetCands(d) ==
    << [el |-> d.area, text |-> d.value], [el |-> d.area, text |-> d.text],
       [el |-> d.p, text |-> d.ptext] >>
TargetCandName == <<"value", "text_content", "p">>

Probed == pc = "probed" /\ ~(recipe = "brave-search" /\ probe.throws)

\* C9: when the k-th candidate of a chain is the only one that yields
\* non-empty trimmed text the field is that text and no later candidate is
\* queried; when none yields the field is empty, and the record is
\* discarded for an empty title but not for an empty description.
C9_SelectorFallback ==
    Probed =>
      IF recipe = "brave-search"
      THEN /\ \A k \in 1..3 :
                OnlyYields(probe.titles, k) =>
                  /\ \A j \in 1..3 : <<"title", j>> \in queried <=> j <= k
                  /\ (HasExternal(probe.links) =>
                        /\ Len(items) = 1
                        /\ items[1].title = Strip(probe.titles[k].text.v))
           /\ (NoneYields(probe.titles) => items = <<>>)
           /\ \A k \in 1..3 :
                (OnlyYields(probe.descs, k) /\ items # <<>>) =>
                  /\ \A j \in 1..3 : <<"desc", j>> \in queried <=> j <= k
                  /\ items[1].snippet = Strip(probe.descs[k].text.v)
           /\ (NoneYields(probe.descs) /\ HasExternal(probe.links)
                  /\ ~NoneYields(probe.titles)
                => Len(items) = 1 /\ items[1].snippet = <<>>)
      ELSE /\ \A k \in 1..3 :
                OnlyYields(TargetCands(probe), k) =>
                  /\ current = Strip(TargetCands(probe)[k].text.v)
                  /\ \A j \in 1..3 : j > k => TargetCandName[j] \notin queried
           /\ (NoneYields(TargetCands(probe)) => current = <<>>)

C9_Witness ==
    /\ pc = "probed" /\ recipe = "brave-search"
    /\ OnlyYields(probe.titles, 2) /\ NoneYields(probe.descs)
    /\ Len(items) = 1 /\ items[1].title = <<"T2">>
    /\ <<"title", 3>> \notin queried

\* the bounded wait for the results container was the last thing the
\* invocation did: it timed out
WaitTimedOut ==
    /\ endpoint = "search" /\ pc = "done"
    /\ ops # <<>> /\ ops[Len(ops)] = "wait_for_selector"

\* C11: on a search endpoint a timed-out wait for the results container
\* does not fail the scrape: it returns an empty result with no next page.
C11_MissingContainerGivesEmptyResult ==
    WaitTimedOut =>
      /\ status = "returned"
      /\ result.items = <<>>
      /\ result.has_next = FALSE

\* the failure kind that a raise of the social-timeline scrape carries:
\* the RuntimeErrors by their message, the timeout of wait_for by its
\* class; any other exception class is no failure kind of the recipe
FailureKind(e) ==
    CASE e = "AccountNotFound" -> "NotFound"
      [] e \in {"BirdFailed", "NoJson"} -> "ExternalToolFailure"
      [] e = "TimeoutError" -> "Timeout"
      [] e = "MissingCredentials" -> "ConfigurationMissing"
      [] e = "MissingUsername" -> "InvalidRequest"
      [] OTHER -> "Untyped"

\* the stderr text names a missing user
SaysNotFound(msg) ==
    \/ \E i \in 1..Len(msg) : msg[i] = "Could not find user"
    \/ \E i \in 1..Len(msg) :
         /\ i + 8 <= Len(msg)
         /\ \A j \in 1..9 :
              msg[i + j - 1] \in <<{"n", "N"}, {"o", "O"}, {"t", "T"}, {" "},
                                   {"f", "F"}, {"o", "O"}, {"u", "U"},
                                   {"n", "N"}, {"d", "D"}>>[j]

BirdRan == recipe = "x" /\ pc = "done" /\ InOps("communicate")

\* C12: once the subprocess has run, every outcome ends in a result or in
\* exactly the failure kind named for it: NotFound for a non-zero exit
\* with a not-found message, ExternalToolFailure for any other non-zero
\* exit and for exit 0 with no "[" or unparseable JSON, Timeout for the
\* exceeded 30 s budget; no other error escapes.
C12_ToolFailuresAreTyped ==
    BirdRan =>
      /\ (status = "raised" =>
            FailureKind(error) \in {"NotFound", "ExternalToolFailure", "Timeout"})
      /\ (proc.returncode # 0 =>
            /\ status = "raised"
            /\ FailureKind(error) = IF SaysNotFound(proc.stderr)
                                     THEN "NotFound" ELSE "ExternalToolFailure")
      /\ (proc.returncode = 0 /\ proc.stdout.kind \in {"none", "invalid"}
            /\ error # "TimeoutError"
            => status = "raised" /\ FailureKind(error) = "ExternalToolFailure")

\* the latest polled value is empty or the echo of the trimmed query
TrivialPoll ==
    polls > 0 /\ (current = <<>> \/ current = Strip(OrEmpty(params.query)))

\* C13: the polling loop ends within 80 polls; a result returned for a
\* non-blank query carries a translated_text that is non-empty, differs
\* from the trimmed query and is the most recent non-trivial value polled;
\* an empty or echo poll leaves the counter at zero and the remembered
\* value unchanged.
C13_ReturnsLastNonTrivialValue ==
    recipe = "deepl" =>
      /\ polls <= MaxPolls
      /\ (polls = MaxPolls => pc # "poll")
      /\ translated = last_seen
      /\ (TrivialPoll /\ pc \in {"poll", "after"} => stable_count = 0)
      /\ (status = "returned" /\ ~Blank(params.query) =>
            LET t == result.items[1].translated_text IN
            /\ polls > 0
            /\ t # <<>>
            /\ t # Strip(params.query.v)
            /\ t = last_seen)
      /\ (status = "raised" /\ error = "TranslationTimeout" =>
            last_seen = <<>> /\ polls = MaxPolls)

C13_Witness ==
    /\ recipe = "deepl" /\ status = "returned" /\ polls = MaxPolls
    /\ TrivialPoll /\ stable_count = 0
    /\ result.items[1].translated_text = Final

====
